---- MODULE Spec2Model ----
(***************************************************************************)
(* The crawler layer of real-time-stock-mcp-service:                       *)
(*   src/crawler/financial_analysis.py  FinancialAnalysisCrawler           *)
(*   src/crawler/market.py              MarketSpider                       *)
(* One crawler call is one behaviour: the caller picks a method and its    *)
(* arguments, every HTTP GET is answered by the provider with one of a     *)
(* small set of outcomes, and the call ends by returning a value or by     *)
(* raising.                                                                *)
(*                                                                         *)
(* Python values.  A str is a sequence of symbols (each symbol a chunk of  *)
(* characters); SP is the one whitespace symbol and EXC the two characters *)
(* the caller searches for.  A dict is a record whose DOMAIN is its key    *)
(* set, a list is a sequence.  The outcome of a call or of a try body is   *)
(* [kind |-> "return", value |-> v] or [kind |-> "raise", exc |-> str(e)]. *)
(***************************************************************************)
EXTENDS Integers, Sequences, FiniteSets, TLC

VARIABLES
    pc,            \* "idle", "loop" (inside the per-date loop), "done"
    method,        \* the method the caller invoked ("" before the call)
    stock_code,    \* the stock_code argument
    arg_dates,     \* the report_dates argument (<<>> for None or an empty list)
    curr_year,     \* datetime.datetime.now().year
    latest,        \* what the nested get_latest_report_dates call ended in
    report_dates,  \* the local report_dates after resolution
    all_data,      \* the accumulator of get_industry_profit_comparison
    requests,      \* every GET issued by the call, in order
    responses,     \* the provider outcome of the method's own GETs, in order
    ret,           \* the outcome of the call
    perm,          \* the reordered call set beside the call (NoPerm when there is none)
    klines,        \* the rows handed to parse_kline_data
    tool           \* what the tool layer handed back to its caller (NoTool before it ran)

vars == <<pc, method, stock_code, arg_dates, curr_year, latest, report_dates,
          all_data, requests, responses, ret, perm, klines, tool>>

-----------------------------------------------------------------------------
(* Bounds of the model *)

\* longest report_dates list a caller supplies
MaxDates == 2

-----------------------------------------------------------------------------
(* Strings *)

SP == " "
\* the marker the caller searches for (the two characters of src line 156)
EXC == "<yichang>"
D1 == "2024-09-30"
D2 == "2024-06-30"
D3 == "2024-03-31"
D4 == "2023-12-31"
T0 == "00:00:00"

\* sym in s, for a one-symbol needle
Contains(s, sym) == \E i \in 1..Len(s) : s[i] = sym

IsSpace(sym) == sym = SP

\* str.split(): the maximal runs of non-whitespace symbols, in order
RECURSIVE SplitFrom(_, _, _)
SplitFrom(s, i, cur) ==
    IF i > Len(s)
    THEN IF cur = <<>> THEN <<>> ELSE <<cur>>
    ELSE IF IsSpace(s[i])
         THEN (IF cur = <<>> THEN <<>> ELSE <<cur>>) \o SplitFrom(s, i + 1, <<>>)
         ELSE SplitFrom(s, i + 1, Append(cur, s[i]))

Split(s) == SplitFrom(s, 1, <<>>)

-----------------------------------------------------------------------------
(* Outcomes of calls and of try bodies *)

Return(v) == [kind |-> "return", value |-> v]
Raise(e) == [kind |-> "raise", exc |-> e]
Pending == [kind |-> "pending"]

\* str(e) of the exceptions the method bodies themselves provoke
AttributeErrorGet == <<"object has no attribute 'get'">>
KeyErrorData == <<"'data'">>
IndexErrorSplit == <<"list index out of range">>
UnknownError == <<"<unknown error>">>

EmptyDict == [k \in {} |-> 0]

-----------------------------------------------------------------------------
(* The provider: what one GET of the JSON endpoint can come back with *)

TransportErrors == { <<"Read timed out">> }
Messages == { <<"no data returned">>, <<"system ", EXC>> }

\* a dict with the key k, or without it
Opt(k, vals) == { EmptyDict } \cup { [x \in {k} |-> v] : v \in vals }

Envelopes(msgs, results) ==
    { [code |-> c, success |-> s] @@ m @@ r :
        c \in {0, 9201}, s \in BOOLEAN, m \in Opt("message", msgs), r \in Opt("result", results) }

\* _get_json either raises (transport, timeout, undecodable body) or returns
\* the decoded value, which is a mapping or is not
JsonOutcomes(msgs, results) ==
    { [kind |-> "raise", exc |-> e] : e \in TransportErrors }
    \cup { [kind |-> "nonmapping"] }
    \cup { [kind |-> "mapping", body |-> b] : b \in Envelopes(msgs, results) }

\* result dicts: empty, without "data", with "data"
Results(rowLists) ==
    { EmptyDict, [pages |-> 1] } \cup { [pages |-> 1, data |-> d] : d \in rowLists }

Row1 == [SECURITY_CODE |-> "300750", REPORT_DATE |-> <<D1, SP, T0>>]
Row2 == [SECURITY_CODE |-> "002594", REPORT_DATE |-> <<D2, SP, T0>>]

\* the row lists of a report answer: none, one row, two rows
DataRowLists == { <<>>, <<Row1>>, <<Row1, Row2>> }

\* answers to RPT_F10_FN_PERFORM and RPT_HOLDERNUM_DET
ReportOutcomes == JsonOutcomes(Messages, Results(DataRowLists))

-----------------------------------------------------------------------------
(* The envelope check shared by the four methods *)

\* EnvelopeOk with the code tested for truth instead of compared with 0
EnvelopeOkCodeTruthy(response) ==
    /\ "code" \in DOMAIN response
    /\ response.code # 0
    /\ "success" \in DOMAIN response
    /\ response.success = TRUE
    /\ "result" \in DOMAIN response
    /\ DOMAIN response.result # {}

\* response.get("code") == 0 and response.get("success") is True and response.get("result")
EnvelopeOk(response) ==
    /\ "code" \in DOMAIN response
    /\ response.code = 0
    /\ "success" \in DOMAIN response
    /\ response.success = TRUE
    /\ "result" \in DOMAIN response
    /\ DOMAIN response.result # {}

\* MessageOf that drops the provider's text
MessageOfDefaultOnly(response) == UnknownError

\* response.get("message", <default>)
MessageOf(response) ==
    IF "message" \in DOMAIN response THEN response.message ELSE UnknownError

\* response["result"]["data"]
ResultData(response) ==
    IF "data" \in DOMAIN response.result
    THEN Return(response.result.data)
    ELSE Raise(KeyErrorData)

-----------------------------------------------------------------------------
(* get_financial_summary, get_holder_number *)

\* the try body of get_financial_summary
FinancialSummaryTry(out) ==
    IF out.kind = "raise" THEN Raise(out.exc)
    ELSE IF out.kind = "nonmapping" THEN Raise(AttributeErrorGet)
    ELSE IF EnvelopeOk(out.body) THEN ResultData(out.body)
    ELSE Return(<<[error |-> MessageOf(out.body)]>>)

\* get_financial_summary without its except clause
FinancialSummaryNoExcept(out) == FinancialSummaryTry(out)

FinancialSummaryResult(out) ==
    LET body == FinancialSummaryTry(out)
    IN  IF body.kind = "raise" THEN Return(<<[error |-> body.exc]>>) ELSE body

\* the try body of get_holder_number
HolderNumberTry(out) ==
    IF out.kind = "raise" THEN Raise(out.exc)
    ELSE IF out.kind = "nonmapping" THEN Raise(AttributeErrorGet)
    ELSE IF EnvelopeOk(out.body) THEN ResultData(out.body)
    ELSE Return(<<[error |-> MessageOf(out.body)]>>)

HolderNumberResult(out) ==
    LET body == HolderNumberTry(out)
    IN  IF body.kind = "raise" THEN Return(<<[error |-> body.exc]>>) ELSE body

-----------------------------------------------------------------------------
(* get_latest_report_dates *)

\* "pageSize": 4 of the report-date query
PageSize == 4

\* REPORT_DATE values of a row: empty, blank, date and time, date alone
ReportDateValues == { <<>>, <<SP>>, <<D1, SP, T0>>, <<D2, SP, T0>>, <<D1>> }

\* a row of the report-date query ("columns": "REPORT_DATE"), with or without the field
DateRows == Opt("REPORT_DATE", ReportDateValues)

RECURSIVE SeqsUpTo(_, _)
SeqsUpTo(S, n) ==
    IF n = 0 THEN { <<>> }
    ELSE LET shorter == SeqsUpTo(S, n - 1)
         IN  shorter \cup { Append(q, x) : q \in { r \in shorter : Len(r) = n - 1 }, x \in S }

LatestOutcomes == JsonOutcomes(Messages, Results(SeqsUpTo(DateRows, PageSize)))

Range(q) == { q[i] : i \in 1..Len(q) }

\* CollectDates without the seen_dates test
RECURSIVE CollectDatesNoSeen(_, _, _)
CollectDatesNoSeen(data, i, dates) ==
    IF i > Len(data) THEN Return(dates)
    ELSE LET item == data[i]
         IN  IF "REPORT_DATE" \notin DOMAIN item \/ item.REPORT_DATE = <<>>
             THEN CollectDatesNoSeen(data, i + 1, dates)
             ELSE LET parts == Split(item.REPORT_DATE)
                  IN  IF parts = <<>> THEN Raise(IndexErrorSplit)
                      ELSE CollectDatesNoSeen(data, i + 1, Append(dates, parts[1]))

\* the for loop over data (lines 127-134) from row i on, dates being the list
\* built so far (seen_dates is the set of its elements)
RECURSIVE CollectDates(_, _, _)
CollectDates(data, i, dates) ==
    IF i > Len(data) THEN Return(dates)
    ELSE LET item == data[i]
         IN  IF "REPORT_DATE" \notin DOMAIN item \/ item.REPORT_DATE = <<>>
             THEN CollectDates(data, i + 1, dates)
             ELSE LET parts == Split(item.REPORT_DATE)
                  IN  IF parts = <<>> THEN Raise(IndexErrorSplit)
                      ELSE IF parts[1] \notin Range(dates)
                           THEN CollectDates(data, i + 1, Append(dates, parts[1]))
                           ELSE CollectDates(data, i + 1, dates)

\* the try body of get_latest_report_dates
LatestReportDatesTry(out) ==
    IF out.kind = "raise" THEN Raise(out.exc)
    ELSE IF out.kind = "nonmapping" THEN Raise(AttributeErrorGet)
    ELSE IF EnvelopeOk(out.body)
         THEN LET data == ResultData(out.body)
              IN  IF data.kind = "raise" THEN data
                  ELSE IF data.value # <<>> THEN CollectDates(data.value, 1, <<>>)
                  ELSE Return(<<>>)
         ELSE Return(<<MessageOf(out.body)>>)

\* the text put before str(e) on line 143; it holds the marker
ExceptionPrefix == <<"<exception while getting the latest report dates", EXC, ": ">>

LatestReportDatesResult(out) ==
    LET body == LatestReportDatesTry(out)
    IN  IF body.kind = "raise" THEN Return(<<ExceptionPrefix \o body.exc>>) ELSE body

\* how the call ended: by an exception, by a provider-reported failure, or well
LatestReportDatesEnd(out) ==
    IF LatestReportDatesTry(out).kind = "raise" THEN "exception"
    ELSE IF ~EnvelopeOk(out.body) THEN "failure"
    ELSE "ok"

-----------------------------------------------------------------------------
(* get_industry_profit_comparison *)

Years == { 2025, 2026 }

\* DefaultDate naming the year's last day
DefaultDateYearEnd(year) == <<ToString(year), "-12-31">>

\* f"{curr_year}-9-30"
DefaultDate(year) == <<ToString(year), "-9-30">>

\* lines 156-163: the dates the loop runs over, given what
\* get_latest_report_dates returned
ResolveDates(got, year) ==
    IF got = <<>> \/ Contains(got[1], EXC)
    THEN <<DefaultDate(year)>>
    ELSE got

\* answers to the per-date query
CompareOutcomes ==
    JsonOutcomes({ <<"no data returned">> },
                 { [pages |-> 1] } \cup { [pages |-> 1, data |-> d] : d \in { <<>>, <<Row1, Row2>> } })

\* the try body of one pass of the loop: what all_data.extend is given
CompareTry(out) ==
    IF out.kind = "raise" THEN Raise(out.exc)
    ELSE IF out.kind = "nonmapping" THEN Raise(AttributeErrorGet)
    ELSE IF EnvelopeOk(out.body) THEN ResultData(out.body)
    ELSE Return(<<[error |-> MessageOf(out.body)]>>)

\* LoopBody that starts all_data afresh when a date fails
LoopBodyFailureResets(data, out) ==
    LET body == CompareTry(out)
    IN  IF body.kind = "raise"
        THEN Return(<<[error |-> body.exc]>>)
        ELSE IF EnvelopeOk(out.body)
             THEN Return(data \o body.value)
             ELSE Return(body.value)

\* one pass of the loop (lines 181-191): all_data after it
LoopBody(data, out) ==
    LET body == CompareTry(out)
    IN  IF body.kind = "raise"
        THEN Return(data \o <<[error |-> body.exc]>>)
        ELSE Return(data \o body.value)

\* lines 165-193 as a function of the provider's answer to each date
RECURSIVE CompareLoop(_, _, _, _)
CompareLoop(dates, i, data, answers) ==
    IF i > Len(dates) THEN Return(data)
    ELSE LET pass == LoopBody(data, answers[dates[i]])
         IN  IF pass.kind = "raise" THEN pass
             ELSE CompareLoop(dates, i + 1, pass.value, answers)

CompareAll(dates, answers) == CompareLoop(dates, 1, <<>>, answers)

\* the GET parameters that tell the queries apart
Request(report, stock, filter) ==
    [reportName |-> report, SECUCODE |-> stock] @@ filter

-----------------------------------------------------------------------------
(* get_plate_quotation *)

\* decoded JSON of the JSONP endpoint, tagged with its type
JNull == [t |-> "null"]
JNum(n) == [t |-> "num", n |-> n]
JList(items) == [t |-> "list", items |-> items]
JDict(d) == [t |-> "dict", d |-> d]

\* Python truth value
Truthy(j) ==
    CASE j.t = "null" -> FALSE
      [] j.t = "num" -> j.n # 0
      [] j.t = "list" -> Len(j.items) > 0
      [] j.t = "dict" -> DOMAIN j.d # {}

\* d.get(k) of a dict
JGet(j, k) == IF k \in DOMAIN j.d THEN j.d[k] ELSE JNull

Quote1 == [f12 |-> "BK0475", f14 |-> "bank"]
Quote2 == [f12 |-> "BK0478", f14 |-> "steel"]

DiffValues == { JNull, JList(<<>>), JList(<<Quote1>>), JList(<<Quote1, Quote2>>) }

DataValues ==
    { JNull, JNum(0), JNum(5), JList(<<>>), JList(<<Quote1>>), JDict(EmptyDict),
      JDict([total |-> JNum(2)]) }
    \cup { JDict([total |-> JNum(2), diff |-> v]) : v \in DiffValues }

Payloads ==
    { JNull, JList(<<>>), JList(<<Quote1>>), JDict(EmptyDict), JDict([rc |-> JNum(0)]) }
    \cup { JDict([rc |-> JNum(0), data |-> v]) : v \in DataValues }

\* _get_jsonp returns the unwrapped payload or null, or the GET itself raises
JsonpOutcomes ==
    { [kind |-> "raise", exc |-> e] : e \in TransportErrors }
    \cup { [kind |-> "value", value |-> v] : v \in Payloads }

\* lines 51-56; nothing here catches
PlateQuotationResult(out) ==
    IF out.kind = "raise" THEN Raise(out.exc)
    ELSE LET response == out.value
         IN  IF ~Truthy(response) THEN Return(JList(<<>>))
             ELSE IF response.t # "dict" THEN Raise(AttributeErrorGet)
             ELSE LET data == JGet(response, "data")
                  IN  IF ~Truthy(data) THEN Return(JList(<<>>))
                      ELSE IF data.t # "dict" THEN Raise(AttributeErrorGet)
                      ELSE IF Truthy(JGet(data, "diff"))
                           THEN Return(JGet(data, "diff"))
                           ELSE Return(JList(<<>>))

\* get_historical_fund_flow, lines 77-82; nothing here catches
FundFlowResult(out) ==
    IF out.kind = "raise" THEN Raise(out.exc)
    ELSE LET response == out.value
         IN  IF ~Truthy(response) THEN Return(JNull)
             ELSE IF response.t # "dict" THEN Raise(AttributeErrorGet)
             ELSE IF Truthy(JGet(response, "data"))
                  THEN Return(JGet(response, "data"))
                  ELSE Return(JNull)

\* format_secid: SH is market 1, SZ is market 0
FormatSecid(stock) ==
    CASE stock = "300750.SZ" -> "0.300750"
      [] stock = "688041.SH" -> "1.688041"

-----------------------------------------------------------------------------
(* The calls *)

Stocks == { "300750.SZ" }
DateTypeCodes == { "001", "004" }
PlateTypes == { 1, 2, 3 }
DateStrings == { <<D1>>, <<D2>> }

NoLatest == [end |-> "none"]
NoPerm == [kind |-> "none"]
NoTool == [kind |-> "none"]

Init ==
    /\ pc = "idle"
    /\ method = ""
    /\ stock_code = ""
    /\ arg_dates = <<>>
    /\ curr_year = 0
    /\ latest = NoLatest
    /\ report_dates = <<>>
    /\ all_data = <<>>
    /\ requests = <<>>
    /\ responses = <<>>
    /\ ret = Pending
    /\ perm = NoPerm
    /\ klines = <<>>
    /\ tool = NoTool

\* a call that is one GET and one return
OneShot(name, stock, request, out, result) ==
    /\ pc' = "done"
    /\ method' = name
    /\ stock_code' = stock
    /\ requests' = <<request>>
    /\ responses' = <<out>>
    /\ ret' = result
    /\ UNCHANGED <<arg_dates, curr_year, latest, report_dates, all_data, perm, klines, tool>>

get_financial_summary ==
    /\ pc = "idle"
    /\ \E stock \in Stocks, date_type_code \in DateTypeCodes, out \in ReportOutcomes :
           OneShot("get_financial_summary", stock,
                   Request("RPT_F10_FN_PERFORM", stock, [DATE_TYPE_CODE |-> date_type_code]),
                   out, FinancialSummaryResult(out))

get_holder_number ==
    /\ pc = "idle"
    /\ \E stock \in Stocks, out \in ReportOutcomes :
           OneShot("get_holder_number", stock,
                   Request("RPT_HOLDERNUM_DET", stock, EmptyDict),
                   out, HolderNumberResult(out))

LatestRequest(stock) ==
    Request("RPT_F10_INDUSTRY_COMPARED", stock, [columns |-> "REPORT_DATE"])

get_latest_report_dates ==
    /\ pc = "idle"
    /\ \E stock \in Stocks, out \in LatestOutcomes :
           OneShot("get_latest_report_dates", stock, LatestRequest(stock),
                   out, LatestReportDatesResult(out))

get_plate_quotation ==
    /\ pc = "idle"
    /\ \E plate_type \in PlateTypes, out \in JsonpOutcomes :
           OneShot("get_plate_quotation", "",
                   [url |-> "clist", fs |-> plate_type],
                   out, PlateQuotationResult(out))

get_historical_fund_flow ==
    /\ pc = "idle"
    /\ \E stock \in Stocks \cup { "688041.SH" }, out \in JsonpOutcomes :
           OneShot("get_historical_fund_flow", stock,
                   [url |-> "fflow", secid |-> FormatSecid(stock)],
                   out, FundFlowResult(out))

RECURSIVE Distinct(_)
Distinct(q) ==
    IF q = <<>> THEN <<>>
    ELSE LET front == Distinct(SubSeq(q, 1, Len(q) - 1))
         IN  IF q[Len(q)] \in Range(front) THEN front ELSE Append(front, q[Len(q)])

\* CompareGiven that queries a repeated date once
CompareGivenDistinct ==
    /\ pc = "idle"
    /\ \E stock \in Stocks, dates \in SeqsUpTo(DateStrings, MaxDates) \ { <<>> } :
        /\ pc' = "loop"
        /\ method' = "get_industry_profit_comparison"
        /\ stock_code' = stock
        /\ arg_dates' = dates
        /\ report_dates' = Distinct(dates)
        /\ all_data' = <<>>
        /\ UNCHANGED <<curr_year, latest, requests, responses, ret, perm, klines, tool>>

\* get_industry_profit_comparison up to the loop, report_dates given
CompareGiven ==
    /\ pc = "idle"
    /\ \E stock \in Stocks, dates \in SeqsUpTo(DateStrings, MaxDates) \ { <<>> } :
        /\ pc' = "loop"
        /\ method' = "get_industry_profit_comparison"
        /\ stock_code' = stock
        /\ arg_dates' = dates
        /\ report_dates' = dates
        /\ all_data' = <<>>
        /\ UNCHANGED <<curr_year, latest, requests, responses, ret, perm, klines, tool>>

\* get_industry_profit_comparison up to the loop, report_dates None or empty:
\* the nested get_latest_report_dates and the fallback
CompareResolve ==
    /\ pc = "idle"
    /\ \E stock \in Stocks, year \in Years, out \in LatestOutcomes :
        LET got == LatestReportDatesResult(out)
        IN  /\ method' = "get_industry_profit_comparison"
            /\ stock_code' = stock
            /\ arg_dates' = <<>>
            /\ curr_year' = year
            /\ requests' = <<LatestRequest(stock)>>
            /\ all_data' = <<>>
            /\ IF got.kind = "raise"
               THEN /\ pc' = "done"
                    /\ ret' = got
                    /\ latest' = [end |-> "raised"]
                    /\ report_dates' = <<>>
               ELSE /\ pc' = "loop"
                    /\ ret' = ret
                    /\ latest' = [end |-> LatestReportDatesEnd(out), value |-> got.value]
                    /\ report_dates' = ResolveDates(got.value, year)
            /\ UNCHANGED <<responses, perm, klines, tool>>

CompareRequest(stock, report_date) ==
    Request("RPT_F10_INDUSTRY_COMPARED", stock,
            [columns |-> "ALL", REPORT_DATE |-> report_date])

\* CompareStep that asks again, once, for a date whose request failed
CompareStepRetry ==
    /\ pc = "loop"
    /\ Len(responses) < Len(report_dates)
    /\ \E out \in CompareOutcomes :
        LET pass == LoopBody(all_data, out)
            request == CompareRequest(stock_code, report_dates[Len(responses) + 1])
        IN  /\ requests' = IF out.kind = "raise"
                           THEN requests \o <<request, request>>
                           ELSE Append(requests, request)
            /\ responses' = Append(responses, out)
            /\ pc' = pc
            /\ ret' = ret
            /\ all_data' = pass.value
            /\ UNCHANGED <<method, stock_code, arg_dates, curr_year, latest,
                           report_dates, perm, klines, tool>>

\* one pass of the loop over report_dates
CompareStep ==
    /\ pc = "loop"
    /\ Len(responses) < Len(report_dates)
    /\ \E out \in CompareOutcomes :
        LET pass == LoopBody(all_data, out)
        IN  /\ requests' = Append(requests,
                                  CompareRequest(stock_code, report_dates[Len(responses) + 1]))
            /\ responses' = Append(responses, out)
            /\ IF pass.kind = "raise"
               THEN /\ pc' = "done"
                    /\ ret' = pass
                    /\ all_data' = all_data
               ELSE /\ pc' = pc
                    /\ ret' = ret
                    /\ all_data' = pass.value
            /\ UNCHANGED <<method, stock_code, arg_dates, curr_year, latest,
                           report_dates, perm, klines, tool>>

\* return all_data
CompareReturn ==
    /\ pc = "loop"
    /\ Len(responses) = Len(report_dates)
    /\ pc' = "done"
    /\ ret' = Return(all_data)
    /\ UNCHANGED <<method, stock_code, arg_dates, curr_year, latest, report_dates,
                   all_data, requests, responses, perm, klines, tool>>

\* characters of a symbol, for slices
CharLen(sym) ==
    CASE sym \in { D1, D2, D3, D4 } -> 10
      [] sym = T0 -> 8
      [] OTHER -> 1

\* text[:10]: the leading symbols that fit in ten characters
RECURSIVE Slice(_, _)
Slice(text, n) ==
    IF text = <<>> \/ CharLen(Head(text)) > n THEN <<>>
    ELSE <<Head(text)>> \o Slice(Tail(text), n - CharLen(Head(text)))

\* item.get(key, ''), item.get('REPORT_DATE', '')[:10] (lines 263, 284)
FormattedItem(item) ==
    [code |-> IF "SECURITY_CODE" \in DOMAIN item THEN <<item.SECURITY_CODE>> ELSE <<>>,
     date |-> IF "REPORT_DATE" \in DOMAIN item /\ item.REPORT_DATE # <<>>
              THEN Slice(item.REPORT_DATE, 10) ELSE <<>>]

\* the tool get_industry_profit_comparison (mcp_tools, lines 197-296) on what
\* the crawler handed back: the text it returns
IndustryToolText(industry) ==
    IF industry.kind = "raise" THEN [kind |-> "failed", error |-> industry.exc]
    ELSE IF industry.value = <<>> THEN [kind |-> "not_found"]
    ELSE IF "error" \in DOMAIN industry.value[1]
         THEN [kind |-> "failed", error |-> industry.value[1].error]
         ELSE [kind |-> "table",
               rows |-> [i \in 1..Len(industry.value) |-> FormattedItem(industry.value[i])]]

\* the tool after its data source call get_industry_profit_comparison(stock_code)
get_industry_profit_comparison_tool ==
    /\ pc = "done"
    /\ method = "get_industry_profit_comparison"
    /\ arg_dates = <<>>
    /\ pc' = "tool_done"
    /\ tool' = IndustryToolText(ret)
    /\ UNCHANGED <<method, stock_code, arg_dates, curr_year, latest, report_dates,
                   all_data, requests, responses, ret, perm, klines>>

Next ==
    \/ get_industry_profit_comparison_tool
    \/ get_financial_summary
    \/ get_holder_number
    \/ get_latest_report_dates
    \/ get_plate_quotation
    \/ get_historical_fund_flow
    \/ CompareGiven
    \/ CompareResolve
    \/ CompareStep
    \/ CompareReturn

Spec == Init /\ [][Next]_vars

-----------------------------------------------------------------------------
(* get_latest_report_dates over a page of up to PageSize rows of four *)
(* report periods                                                     *)

\* REPORT_DATE as the provider may write it: date and time, the two joined by
\* "T", whitespace only, empty
WideReportDateValues ==
    { <<d, SP, T0>> : d \in { D1, D2, D3, D4 } } \cup { <<D3, "T", T0>>, <<SP>>, <<>> }

WideDateRows == Opt("REPORT_DATE", WideReportDateValues)

WideLatestOutcomes == JsonOutcomes(Messages, Results(SeqsUpTo(WideDateRows, PageSize)))

get_latest_report_dates_page ==
    /\ pc = "idle"
    /\ \E stock \in Stocks, out \in WideLatestOutcomes :
           OneShot("get_latest_report_dates", stock, LatestRequest(stock),
                   out, LatestReportDatesResult(out))

NextDates == get_latest_report_dates_page

SpecDates == Init /\ [][NextDates]_vars

-----------------------------------------------------------------------------
(* The same call on a reordered date list, the provider answering each date *)
(* the same way both times                                                  *)

Permutation(q, p) == [i \in 1..Len(q) |-> q[p[i]]]

Orders(n) == { p \in [1..n -> 1..n] : \A i, j \in 1..n : p[i] = p[j] => i = j }

InitPerm ==
    /\ pc = "idle"
    /\ method = "get_industry_profit_comparison"
    /\ stock_code \in Stocks
    /\ arg_dates \in SeqsUpTo(DateStrings, MaxDates) \ { <<>> }
    /\ curr_year = 0
    /\ latest = NoLatest
    /\ report_dates = arg_dates
    /\ all_data = <<>>
    /\ requests = <<>>
    /\ responses = <<>>
    /\ ret = Pending
    /\ perm \in { [kind |-> "fixture", answers |-> f] : f \in [DateStrings -> CompareOutcomes] }
    /\ klines = <<>>
    /\ tool = NoTool

\* get_industry_profit_comparison(stock_code, arg_dates) and
\* get_industry_profit_comparison(stock_code, a reordering of arg_dates)
CompareBoth ==
    /\ pc = "idle"
    /\ \E p \in Orders(Len(arg_dates)) :
        LET first == CompareAll(arg_dates, perm.answers)
            other == CompareAll(Permutation(arg_dates, p), perm.answers)
        IN  /\ pc' = "done"
            /\ ret' = first
            /\ all_data' = IF first.kind = "return" THEN first.value ELSE <<>>
            /\ perm' = [kind |-> "ran", answers |-> perm.answers,
                        dates |-> Permutation(arg_dates, p), ret |-> other]
            /\ UNCHANGED <<method, stock_code, arg_dates, curr_year, latest,
                           report_dates, requests, responses, klines, tool>>

NextPerm == CompareBoth

SpecPerm == InitPerm /\ [][NextPerm]_vars

-----------------------------------------------------------------------------
(* parse_kline_data and get_kline (src/mcp_tools/kline_data.py) *)

\* most rows in one batch
MaxKlines == 2

COMMA == ","

\* kline.split(","): the fields between the commas, empty ones kept
RECURSIVE SplitOnFrom(_, _, _, _)
SplitOnFrom(s, sep, i, cur) ==
    IF i > Len(s) THEN <<cur>>
    ELSE IF s[i] = sep
         THEN <<cur>> \o SplitOnFrom(s, sep, i + 1, <<>>)
         ELSE SplitOnFrom(s, sep, i + 1, Append(cur, s[i]))

SplitOn(s, sep) == SplitOnFrom(s, sep, 1, <<>>)

\* the texts int() and float() accept, and their values (floats in tenths)
IntTexts == { "12", "7" }
FloatTexts == IntTexts \cup { "10.5", "9.5" }

IntOf(text) == CASE text = "12" -> 12 [] text = "7" -> 7

TenthsOf(text) ==
    CASE text = "12" -> 120 [] text = "7" -> 70 [] text = "10.5" -> 105 [] text = "9.5" -> 95

\* float(field)
ParseFloat(field) ==
    IF Len(field) = 1 /\ field[1] \in FloatTexts
    THEN Return(TenthsOf(field[1]))
    ELSE Raise(<<"could not convert string to float: ">> \o field)

\* int(field)
ParseInt(field) ==
    IF Len(field) = 1 /\ field[1] \in IntTexts
    THEN Return(IntOf(field[1]))
    ELSE Raise(<<"invalid literal for int() with base 10: ">> \o field)

\* the keys of a record in the order the dict display evaluates them, with
\* the field each is read from (fields[0] is field 1 here)
KlineKeys ==
    <<"open", "close", "high", "low", "volume", "amount", "amplitude",
      "change_percent", "change_amount", "turnover_rate">>

ParseField(fields, k) ==
    IF KlineKeys[k] = "volume" THEN ParseInt(fields[k + 1]) ELSE ParseFloat(fields[k + 1])

\* the dict display of lines 29-41: the first conversion that fails raises
KlineRecord(fields) ==
    IF \E k \in 1..Len(KlineKeys) : ParseField(fields, k).kind = "raise"
    THEN ParseField(fields,
                    CHOOSE k \in 1..Len(KlineKeys) :
                        /\ ParseField(fields, k).kind = "raise"
                        /\ \A j \in 1..(k - 1) : ParseField(fields, j).kind = "return")
    ELSE Return([key \in { "date" } \cup Range(KlineKeys) |->
                    IF key = "date" THEN fields[1]
                    ELSE ParseField(fields, CHOOSE k \in 1..Len(KlineKeys) : KlineKeys[k] = key).value])

\* the for loop of parse_kline_data from row i on; nothing here catches
RECURSIVE ParseKlinesFrom(_, _, _)
ParseKlinesFrom(rows, i, result) ==
    IF i > Len(rows) THEN Return(result)
    ELSE LET fields == SplitOn(rows[i], COMMA)
         IN  IF Len(fields) >= 11
             THEN LET record == KlineRecord(fields)
                  IN  IF record.kind = "raise" THEN record
                      ELSE ParseKlinesFrom(rows, i + 1, Append(result, record.value))
             ELSE ParseKlinesFrom(rows, i + 1, result)

ParseKlineData(rows) == ParseKlinesFrom(rows, 1, <<>>)

\* "a,b,c" from its fields
RECURSIVE Join(_, _)
Join(fields, sep) ==
    IF fields = <<>> THEN <<>>
    ELSE IF Len(fields) = 1 THEN fields[1]
    ELSE fields[1] \o <<sep>> \o Join(Tail(fields), sep)

\* the eleven fields of a well-formed row
GoodFields(date, volume) ==
    << <<date>>, <<"10.5">>, <<"12">>, <<"12">>, <<"9.5">>, <<volume>>, <<"10.5">>,
       <<"10.5">>, <<"9.5">>, <<"7">>, <<"10.5">> >>

GoodFieldLists == { GoodFields("2024-01-02", "12"), GoodFields("2024-01-03", "7") }

\* rows cut short, rows with a twelfth field, rows with one field that does
\* not convert (no number, a fraction, nothing at all)
KlineFieldLists ==
    GoodFieldLists
    \cup { SubSeq(g, 1, n) : g \in GoodFieldLists, n \in { 0, 1, 10 } }
    \cup { Append(g, <<"7">>) : g \in GoodFieldLists }
    \cup { [GoodFields("2024-01-02", "12") EXCEPT ![p] = t] :
             p \in 2..11, t \in { <<"x">>, <<"10.5">>, <<>> } }

KlineRows == { Join(f, COMMA) : f \in KlineFieldLists }

\* get_historical_k_data of the data source: rows, none, or an exception
KlineSourceOutcomes ==
    { [kind |-> "raise", exc |-> e] : e \in TransportErrors }
    \cup { [kind |-> "value", value |-> rows] : rows \in SeqsUpTo(KlineRows, MaxKlines) }

\* lines 105-110
KlineStatus(k) ==
    IF k.close > k.open THEN "up" ELSE IF k.close < k.open THEN "down" ELSE "flat"

\* get_kline, lines 78-133: the text handed back
GetKlineText(out) ==
    IF out.kind = "raise" THEN [kind |-> "failed", error |-> out.exc]
    ELSE IF out.value = <<>> THEN [kind |-> "not_found"]
    ELSE LET parsed == ParseKlineData(out.value)
         IN  IF parsed.kind = "raise" THEN [kind |-> "failed", error |-> parsed.exc]
             ELSE [kind |-> "table",
                   rows |-> [i \in 1..Len(parsed.value) |->
                               [date |-> parsed.value[i].date,
                                status |-> KlineStatus(parsed.value[i])]]]

parse_kline_data ==
    /\ pc = "idle"
    /\ \E rows \in SeqsUpTo(KlineRows, MaxKlines) :
        /\ pc' = "done"
        /\ method' = "parse_kline_data"
        /\ klines' = rows
        /\ ret' = ParseKlineData(rows)
        /\ UNCHANGED <<stock_code, arg_dates, curr_year, latest, report_dates,
                       all_data, requests, responses, perm, tool>>

get_kline ==
    /\ pc = "idle"
    /\ \E stock \in Stocks, out \in KlineSourceOutcomes :
        /\ pc' = "done"
        /\ method' = "get_kline"
        /\ stock_code' = stock
        /\ klines' = IF out.kind = "value" THEN out.value ELSE <<>>
        /\ responses' = <<out>>
        /\ tool' = GetKlineText(out)
        /\ UNCHANGED <<arg_dates, curr_year, latest, report_dates, all_data,
                       requests, ret, perm>>

NextKline == parse_kline_data \/ get_kline

SpecKline == Init /\ [][NextKline]_vars

-----------------------------------------------------------------------------
(* What the claims speak of, stated on the provider's answer itself *)

Done(name) == pc = "done" /\ method = name

IsMapping(out) == out.kind = "mapping"

\* code == 0, success is true, result present (a non-empty result)
SuccessEnvelope(out) ==
    /\ IsMapping(out)
    /\ out.body.code = 0
    /\ out.body.success = TRUE
    /\ "result" \in DOMAIN out.body
    /\ DOMAIN out.body.result # {}

\* a successful envelope whose result carries "data"
SuccessWithData(out) ==
    SuccessEnvelope(out) /\ "data" \in DOMAIN out.body.result

\* success = false
ProviderFailure(out) == IsMapping(out) /\ out.body.success = FALSE

HasMessage(out) == "message" \in DOMAIN out.body

NoErrorKey(rows) == \A i \in 1..Len(rows) : "error" \notin DOMAIN rows[i]

IsErrorMarker(v) == Len(v) = 1 /\ DOMAIN v[1] = { "error" }

-----------------------------------------------------------------------------
(* C1 *)

\* C1 as stated: whenever the answer to get_financial_summary is a successful
\* envelope (code == 0, success true, result present), the call returns
\* result.data itself, a list none of whose elements has an "error" key.
C1_AsStated ==
    (Done("get_financial_summary") /\ SuccessEnvelope(responses[1]))
        => /\ ret.kind = "return"
           /\ "data" \in DOMAIN responses[1].body.result
           /\ ret.value = responses[1].body.result.data
           /\ NoErrorKey(ret.value)

\* C1 amended: whenever the answer to get_financial_summary is a successful
\* envelope whose result carries "data", the call returns result.data itself,
\* a list none of whose elements has an "error" key.
C1_SuccessReturnsData ==
    (Done("get_financial_summary") /\ SuccessWithData(responses[1]))
        => /\ ret = Return(responses[1].body.result.data)
           /\ NoErrorKey(ret.value)

C1_Witness ==
    /\ Done("get_financial_summary")
    /\ SuccessWithData(responses[1])
    /\ Len(responses[1].body.result.data) = 2
    /\ ret.value = <<Row1, Row2>>

-----------------------------------------------------------------------------
(* C2 *)

\* the first element of a failed call's result and the message it must carry
FailureCarries(first, out, plain) ==
    /\ plain => (HasMessage(out) => first = out.body.message)
    /\ ~plain => /\ "error" \in DOMAIN first
                 /\ HasMessage(out) => first.error = out.body.message

\* C2: when the provider answers success = false, get_financial_summary,
\* get_holder_number and get_industry_profit_comparison (dates given or not)
\* return a non-empty list whose first element has an "error" key holding the
\* provider's message, and get_latest_report_dates a non-empty list whose first
\* element is the provider's message.
C2_FailureCarriesMessage ==
    (/\ pc = "done"
     /\ method \in { "get_financial_summary", "get_holder_number",
                     "get_latest_report_dates", "get_industry_profit_comparison" }
     /\ ProviderFailure(responses[1]))
        => /\ ret.kind = "return"
           /\ Len(ret.value) >= 1
           /\ FailureCarries(ret.value[1], responses[1], method = "get_latest_report_dates")

C2_Witness ==
    /\ Done("get_industry_profit_comparison")
    /\ arg_dates = <<>>
    /\ latest.end = "failure"
    /\ Len(responses) = 1
    /\ ProviderFailure(responses[1])
    /\ HasMessage(responses[1])
    /\ ret.value[1] = [error |-> <<"no data returned">>]

-----------------------------------------------------------------------------
(* C3 *)

\* the answers that make the body of a method raise
BodyRaises(out) ==
    \/ out.kind = "raise"
    \/ out.kind = "nonmapping"
    \/ SuccessEnvelope(out) /\ "data" \notin DOMAIN out.body.result

\* C3: no financial-analysis method raises: every call ends by returning, and
\* get_financial_summary and get_holder_number return the one-element list
\* [{"error": text}] when the GET failed, the body was no mapping or the result
\* had no "data", and the data of a successful envelope otherwise.
C3_NeverRaises ==
    (/\ pc = "done"
     /\ method \in { "get_financial_summary", "get_holder_number",
                     "get_latest_report_dates", "get_industry_profit_comparison" })
        => /\ ret.kind = "return"
           /\ method \in { "get_financial_summary", "get_holder_number" }
                => /\ BodyRaises(responses[1]) => IsErrorMarker(ret.value)
                   /\ SuccessWithData(responses[1])
                        => ret.value = responses[1].body.result.data
                   /\ IsErrorMarker(ret.value) \/ SuccessWithData(responses[1])

C3_Witness ==
    /\ Done("get_financial_summary")
    /\ responses[1].kind = "raise"
    /\ ret = Return(<<[error |-> <<"Read timed out">>]>>)

-----------------------------------------------------------------------------
(* C4 *)

HasReportDate(row) == "REPORT_DATE" \in DOMAIN row /\ row.REPORT_DATE # <<>>

\* a REPORT_DATE of whitespace only: the call ends in its except clause
Blank(row) == HasReportDate(row) /\ \A i \in 1..Len(row.REPORT_DATE) : row.REPORT_DATE[i] = SP

\* the rows whose date is d
RowsOf(rows, d) ==
    { k \in 1..Len(rows) : HasReportDate(rows[k]) /\ Split(rows[k].REPORT_DATE)[1] = d }

Smallest(S) == CHOOSE k \in S : \A m \in S : k <= m

\* the answer is a successful one with rows, none of them blank
DatedRows(out) ==
    /\ SuccessWithData(out)
    /\ \A k \in 1..Len(out.body.result.data) : ~Blank(out.body.result.data[k])

\* C4: on a successful answer, repeated REPORT_DATE values or not, the list
\* get_latest_report_dates returns holds no date twice, holds only dates of the
\* rows, and holds them in the order of their first rows.
C4_NoDuplicatesFirstSeenOrder ==
    (Done("get_latest_report_dates") /\ DatedRows(responses[1]))
        => LET rows == responses[1].body.result.data
               dates == ret.value
           IN  /\ ret.kind = "return"
               /\ \A i, j \in 1..Len(dates) : dates[i] = dates[j] => i = j
               /\ \A i \in 1..Len(dates) : RowsOf(rows, dates[i]) # {}
               /\ \A i, j \in 1..Len(dates) :
                    i < j => Smallest(RowsOf(rows, dates[i])) < Smallest(RowsOf(rows, dates[j]))

C4_Witness ==
    /\ Done("get_latest_report_dates")
    /\ DatedRows(responses[1])
    /\ Len(responses[1].body.result.data) = 4
    /\ responses[1].body.result.data[1] = responses[1].body.result.data[3]
    /\ responses[1].body.result.data[2] = responses[1].body.result.data[4]
    /\ ret.value = << <<D2>>, <<D1>> >>

-----------------------------------------------------------------------------
(* C5 *)

\* the REPORT_DATE filters of the per-date queries among the requests from k on
DatesQueried(k) ==
    [i \in 1..(Len(requests) - k + 1) |-> requests[i + k - 1].REPORT_DATE]

IsLatestQuery(r) == r.reportName = "RPT_F10_INDUSTRY_COMPARED" /\ r.columns = "REPORT_DATE"

\* C5: get_industry_profit_comparison issues one GET per entry of the date
\* list, repeated entries included: the entries of the supplied list in order
\* when one is supplied, and else the report-date query followed by one GET per
\* resolved date.
C5_OneRequestPerDate ==
    Done("get_industry_profit_comparison")
        => IF arg_dates # <<>>
           THEN Len(requests) = Len(arg_dates) /\ DatesQueried(1) = arg_dates
           ELSE /\ Len(requests) = 1 + Len(report_dates)
                /\ IsLatestQuery(requests[1])
                /\ DatesQueried(2) = report_dates

C5_Witness ==
    /\ Done("get_industry_profit_comparison")
    /\ arg_dates = << <<D1>>, <<D1>> >>
    /\ Len(requests) = 2

-----------------------------------------------------------------------------
(* C6 *)

\* C6: with the provider answering each date the same way, the list
\* get_industry_profit_comparison returns for a reordering of a supplied
\* non-empty date list is as long as the list it returns for the list itself.
C6_LengthUnderReordering ==
    (pc = "done" /\ perm.kind = "ran")
        => /\ ret.kind = "return"
           /\ perm.ret.kind = "return"
           /\ Len(ret.value) = Len(perm.ret.value)

C6_Witness ==
    /\ pc = "done"
    /\ perm.kind = "ran"
    /\ arg_dates = << <<D1>>, <<D2>> >>
    /\ perm.dates = << <<D2>>, <<D1>> >>
    /\ ProviderFailure(perm.answers[<<D2>>])
    /\ Len(ret.value) = 3
    /\ ret.value # perm.ret.value

-----------------------------------------------------------------------------
(* C7 *)

\* how many rows the answer to one date contributes: its data rows on success,
\* one error row on provider failure or exception
Contributes(out) ==
    IF SuccessWithData(out) THEN Len(out.body.result.data) ELSE 1

RECURSIVE RowsBefore(_, _)
RowsBefore(outs, i) ==
    IF i = 1 THEN 0 ELSE RowsBefore(outs, i - 1) + Contributes(outs[i - 1])

\* the rows of data that the i-th answer contributed
Segment(data, outs, i) ==
    SubSeq(data, RowsBefore(outs, i) + 1, RowsBefore(outs, i) + Contributes(outs[i]))

\* C7: all_data is, date after date, each date's contribution: the rows of
\* result.data when the date succeeded, one {"error": ...} row when it failed
\* or raised; a failed date leaves the other dates' rows as they are, and every
\* date of the list is queried before the call returns.
C7_ConcatenationInDateOrder ==
    (method = "get_industry_profit_comparison" /\ pc \in { "loop", "done" })
        => /\ Len(all_data) = RowsBefore(responses, Len(responses) + 1)
           /\ \A i \in 1..Len(responses) :
                LET part == Segment(all_data, responses, i)
                IN  IF SuccessWithData(responses[i])
                    THEN part = responses[i].body.result.data
                    ELSE Len(part) = 1 /\ DOMAIN part[1] = { "error" }
           /\ pc = "done" => /\ ret = Return(all_data)
                             /\ Len(responses) = Len(report_dates)

C7_Witness ==
    /\ Done("get_industry_profit_comparison")
    /\ Len(responses) = 2
    /\ SuccessWithData(responses[1])
    /\ ~SuccessWithData(responses[2])
    /\ ret.value = <<Row1, Row2, [error |-> <<"Read timed out">>]>>

-----------------------------------------------------------------------------
(* C8 *)

\* "<currentYear>-9-30"
FallbackDate == <<ToString(curr_year), "-9-30">>

Resolved == method = "get_industry_profit_comparison" /\ latest # NoLatest

\* the list get_latest_report_dates returned is empty or starts with a string
\* that holds the marker
NeedsFallback ==
    \/ latest.value = <<>>
    \/ \E i \in 1..Len(latest.value[1]) : latest.value[1][i] = EXC

-----------------------------------------------------------------------------
(* C9 *)

\* C9 as stated: when get_latest_report_dates ended in a provider-reported
\* failure or in an exception, the comparison queries carry the fallback date
\* only, and never the failure message as their REPORT_DATE.
C9_FailedResolutionUsesFallback ==
    (Resolved /\ latest.end \in { "failure", "exception" })
        => /\ report_dates = <<FallbackDate>>
           /\ \A k \in 2..Len(requests) : requests[k].REPORT_DATE = FallbackDate

-----------------------------------------------------------------------------
(* C10 *)

\* the payload has a data.diff that is present and non-empty
HasDiff(payload) ==
    /\ payload.t = "dict"
    /\ "data" \in DOMAIN payload.d
    /\ payload.d.data.t = "dict"
    /\ "diff" \in DOMAIN payload.d.data.d
    /\ payload.d.data.d.diff.t = "list"
    /\ payload.d.data.d.diff.items # <<>>

\* C10 as stated: for every decoded payload without a data.diff (null, no
\* "data", "data" null, empty, no mapping, or a mapping without a truthy
\* "diff") get_plate_quotation returns an empty list, neither null nor an
\* exception; with a non-empty data.diff it returns data.diff.
C10_NoDiffGivesEmptyList ==
    (Done("get_plate_quotation") /\ responses[1].kind = "value")
        => IF HasDiff(responses[1].value)
           THEN ret = Return(responses[1].value.d.data.d.diff)
           ELSE ret = Return(JList(<<>>))

-----------------------------------------------------------------------------
(* K-line rows *)

FieldsOf(row) == SplitOn(row, COMMA)

\* a row of eleven fields whose numeric fields all convert
WellFormedRow(row) ==
    /\ Len(FieldsOf(row)) = 11
    /\ KlineRecord(FieldsOf(row)).kind = "return"

\* a row of too few fields
ShortRow(row) == Len(FieldsOf(row)) < 11

\* a row of enough fields with one that does not convert
MalformedRow(row) ==
    /\ Len(FieldsOf(row)) >= 11
    /\ KlineRecord(FieldsOf(row)).kind = "raise"

\* what a parser that leaves out every row it cannot convert would hand back
RECURSIVE ParseKlinesSkipping(_, _, _)
ParseKlinesSkipping(rows, i, result) ==
    IF i > Len(rows) THEN Return(result)
    ELSE LET fields == SplitOn(rows[i], COMMA)
         IN  IF Len(fields) >= 11 /\ KlineRecord(fields).kind = "return"
             THEN ParseKlinesSkipping(rows, i + 1, Append(result, KlineRecord(fields).value))
             ELSE ParseKlinesSkipping(rows, i + 1, result)

ExpectedRecords(rows) == ParseKlinesSkipping(rows, 1, <<>>)

\* C11: every well-formed row of a batch gives exactly one record, rows of
\* fewer than 11 fields give none and raise nothing, and the records come in
\* the order of the rows: a batch holding a well-formed row is answered with
\* the records of its convertible rows, in order.
C11_WellFormedRowsGiveRecords ==
    (Done("parse_kline_data") /\ \E i \in 1..Len(klines) : WellFormedRow(klines[i]))
        => ret = ExpectedRecords(klines)

\* C12: a batch holding a short or malformed row is still answered, without an
\* exception, with the records of all its well-formed rows; through get_kline
\* the caller gets their table.
C12_MalformedRowsAreSkipped ==
    /\ (Done("parse_kline_data")
          /\ \E i \in 1..Len(klines) : ShortRow(klines[i]) \/ MalformedRow(klines[i]))
        => /\ ret.kind = "return"
           /\ ret = ExpectedRecords(klines)
    /\ (Done("get_kline") /\ responses[1].kind = "value"
          /\ (\E i \in 1..Len(klines) : MalformedRow(klines[i]))
          /\ \E i \in 1..Len(klines) : WellFormedRow(klines[i]))
        => /\ tool.kind = "table"
           /\ Len(tool.rows) = Len(ExpectedRecords(klines).value)

-----------------------------------------------------------------------------
(* The tool layer over the comparison *)

\* part occurs in text as a run of consecutive symbols
Occurs(part, text) ==
    \E i \in 0..(Len(text) - Len(part)) : SubSeq(text, i + 1, i + Len(part)) = part

\* the text the tool returned shows the message somewhere
TextShows(text, message) ==
    \/ text.kind = "failed" /\ Occurs(message, text.error)
    \/ text.kind = "table"
         /\ \E i \in 1..Len(text.rows) :
                Occurs(message, text.rows[i].code) \/ Occurs(message, text.rows[i].date)

ToolDone == pc = "tool_done" /\ method = "get_industry_profit_comparison"

\* C13: the text of the get_industry_profit_comparison tool shows the message
\* of every error marker of the crawler's list, whatever its position.
C13_EveryErrorMessageShown ==
    (ToolDone /\ ret.kind = "return")
        => \A i \in 1..Len(ret.value) :
               "error" \in DOMAIN ret.value[i] => TextShows(tool, ret.value[i].error)

-----------------------------------------------------------------------------
(* The dates of get_latest_report_dates *)

LatestDone == Done("get_latest_report_dates")

\* the answer is a successful envelope whose data is a list of rows
LatestAnswer == responses[1]

LatestRows == LatestAnswer.body.result.data

DateSymbols == { D1, D2, D3, D4 }

\* a REPORT_DATE that opens with a date
OpensWithDate(v) == v # <<>> /\ v[1] \in DateSymbols

\* C14: on a successful response get_latest_report_dates returns at most
\* three report dates.
C14_AtMostThreeDates ==
    (LatestDone /\ SuccessWithData(LatestAnswer))
        => ret.kind = "return" /\ Len(ret.value) <= 3

\* C15: on a successful response every returned string is the date alone that
\* opens some row's non-empty REPORT_DATE, and the date of every row that
\* opens with one is returned whatever the other rows hold.
C15_DateOnlyPrefixes ==
    (LatestDone /\ SuccessWithData(LatestAnswer))
        => /\ ret.kind = "return"
           /\ \A k \in 1..Len(ret.value) :
                  \E i \in 1..Len(LatestRows) :
                      /\ HasReportDate(LatestRows[i])
                      /\ OpensWithDate(LatestRows[i].REPORT_DATE)
                      /\ ret.value[k] = <<LatestRows[i].REPORT_DATE[1]>>
           /\ \A i \in 1..Len(LatestRows) :
                  (HasReportDate(LatestRows[i]) /\ OpensWithDate(LatestRows[i].REPORT_DATE))
                      => <<LatestRows[i].REPORT_DATE[1]>> \in Range(ret.value)

-----------------------------------------------------------------------------
(* The GETs of a call *)

OneGetMethods ==
    { "get_financial_summary", "get_holder_number", "get_latest_report_dates",
      "get_plate_quotation", "get_historical_fund_flow" }

\* the GETs of the comparison issued before its loop
GetsBeforeLoop == IF arg_dates = <<>> THEN 1 ELSE 0

IsPrefix(q, r) == Len(q) <= Len(r) /\ SubSeq(r, 1, Len(q)) = q

\* the comparison has asked for the first dates of report_dates, once each and
\* in order, and every one of these requests has been answered
AskedInTurn ==
    /\ Len(requests) = GetsBeforeLoop + Len(responses)
    /\ Len(responses) <= Len(report_dates)
    /\ \A i \in 1..Len(responses) :
           requests[GetsBeforeLoop + i] = CompareRequest(stock_code, report_dates[i])

\* C16: no call asks again for a request that failed and none has two
\* requests under way: a step issues at most one GET and withdraws none, the
\* one-GET methods end with exactly one GET whatever its outcome, and the
\* comparison asks for each date once, in order, the next one only when all
\* earlier ones have been answered; a comparison that returns has asked for
\* every date.
C16_OneGetAtATime ==
    [][ /\ Len(requests') <= Len(requests) + 1
        /\ IsPrefix(requests, requests')
        /\ (pc' = "done" /\ method' \in OneGetMethods)
              => Len(requests') = 1 /\ Len(responses') = 1
        /\ (method' = "get_industry_profit_comparison" /\ pc' \in { "loop", "done" })
              => /\ AskedInTurn'
                 /\ (pc' = "done" /\ ret'.kind = "return")
                        => Len(responses') = Len(report_dates')
      ]_vars

\* a comparison over two given dates that returned, the first date's GET having failed
C16_Witness ==
    /\ Done("get_industry_profit_comparison")
    /\ Len(arg_dates) = 2
    /\ ret.kind = "return"
    /\ responses[1].kind = "raise"
    /\ Len(requests) = 2
    /\ requests[2] = CompareRequest(stock_code, arg_dates[2])

====
